---- MODULE Spec2Model ----
(***************************************************************************)
(* A model of the ColorFormat library (src/ColorFormat.cpp,                *)
(* src/ColorFormat.hpp): ANSI token tables, the escape stripper, the       *)
(* string / integer / gradient / rainbow formatters.                       *)
(*                                                                         *)
(* A C++ std::string is a sequence of characters; a character is a TLA+    *)
(* string of its own ("a", "[", "m", ...), the escape character 0x1B is    *)
(* ESC.  A call either returns a string or throws std::invalid_argument:   *)
(* [thrown |-> FALSE, value |-> <the string>] or                           *)
(* [thrown |-> TRUE, value |-> <what()>].  A what() text is the sequence   *)
(* of its cross mark, the rest of its literal part (one element) and the   *)
(* characters appended to it.                                              *)
(***************************************************************************)
EXTENDS Integers, Sequences, FiniteSets, TLC

VARIABLES fn, argString, argFormats, argNumber, argMinimum, argMaximum,
          randValues, pc, returned, again, cleaned

vars == <<fn, argString, argFormats, argNumber, argMinimum, argMaximum,
          randValues, pc, returned, again, cleaned>>

(***************************************************************************)
(* Characters and the token tables                                         *)
(***************************************************************************)
ESC == "ESC"

\* "\033[" + code + "m"
Sgr(code) == <<ESC, "[">> \o code \o <<"m">>

RESET == Sgr(<<"0">>)

red == <<"r", "e", "d">>
green == <<"g", "r", "e", "e", "n">>
yellow == <<"y", "e", "l", "l", "o", "w">>
blue == <<"b", "l", "u", "e">>
magenta == <<"m", "a", "g", "e", "n", "t", "a">>
cyan == <<"c", "y", "a", "n">>
white == <<"w", "h", "i", "t", "e">>
black == <<"b", "l", "a", "c", "k">>

bold == <<"b", "o", "l", "d">>
underline == <<"u", "n", "d", "e", "r", "l", "i", "n", "e">>
italic == <<"i", "t", "a", "l", "i", "c">>
strikethrough == <<"s", "t", "r", "i", "k", "e", "t", "h", "r", "o", "u", "g", "h">>
blink == <<"b", "l", "i", "n", "k">>

\* _colors[8][2]: name, escape code
_colors ==
  << <<red,     Sgr(<<"3", "1">>)>>, <<green, Sgr(<<"3", "2">>)>>,
     <<yellow,  Sgr(<<"3", "3">>)>>, <<blue,  Sgr(<<"3", "4">>)>>,
     <<magenta, Sgr(<<"3", "5">>)>>, <<cyan,  Sgr(<<"3", "6">>)>>,
     <<white,   Sgr(<<"3", "7">>)>>, <<black, Sgr(<<"3", "0">>)>> >>

\* _styles[5][2]: name, escape code
_styles ==
  << <<bold,          Sgr(<<"1">>)>>,
     <<underline,     Sgr(<<"4">>)>>,
     <<italic,        Sgr(<<"3">>)>>,
     <<strikethrough, Sgr(<<"9">>)>>,
     <<blink,         Sgr(<<"5">>)>> >>

\* The first row of a table whose name is `name`, 0 when there is none (the
\* `for j ... if (parameters[i] == table[j][0]) ... break` lookups).
Lookup(table, name) ==
  LET rows == {j \in 1..Len(table) : table[j][1] = name}
  IN  IF rows = {} THEN 0 ELSE CHOOSE j \in rows : \A k \in rows : j <= k

Returns(s) == [thrown |-> FALSE, value |-> s]
Throws(what) == [thrown |-> TRUE, value |-> what]

(***************************************************************************)
(* removePreviousFormats                                                   *)
(***************************************************************************)
\* std::string::npos, for 1-based positions
npos == 0

\* string.rfind("\033["): the last position holding ESC followed by '['
FindStart_Last(string) ==
  LET hits == {i \in 1..(Len(string) - 1) : string[i] = ESC /\ string[i + 1] = "["}
  IN  IF hits = {} THEN npos ELSE CHOOSE i \in hits : \A k \in hits : i >= k

\* string.find("\033["): the first position holding ESC followed by '['
FindStart(string) ==
  LET hits == {i \in 1..(Len(string) - 1) : string[i] = ESC /\ string[i + 1] = "["}
  IN  IF hits = {} THEN npos ELSE CHOOSE i \in hits : \A k \in hits : i <= k

\* string.find('m', start): the first 'm' at or after start
FindEnd(string, start) ==
  LET hits == {i \in start..Len(string) : string[i] = "m"}
  IN  IF hits = {} THEN npos ELSE CHOOSE i \in hits : \A k \in hits : i <= k

\* string.erase(start, end - start): the 'm' is left
Erase_KeepEnd(string, start, end) ==
  SubSeq(string, 1, start - 1) \o SubSeq(string, end, Len(string))

\* string.erase(start, end - start + 1)
Erase(string, start, end) ==
  SubSeq(string, 1, start - 1) \o SubSeq(string, end + 1, Len(string))

\* Whether the while loop runs one more erasing iteration on `string`
StripContinues(string) ==
  /\ FindStart(string) # npos
  /\ FindEnd(string, FindStart(string)) # npos

\* One iteration of the while loop that erases
StripStep(string) ==
  Erase(string, FindStart(string), FindEnd(string, FindStart(string)))

\* removePreviousFormats with `if` for `while`: one escape is erased
removePreviousFormats_Once(string) ==
  IF StripContinues(string) THEN StripStep(string) ELSE string

RECURSIVE removePreviousFormats(_)
removePreviousFormats(string) ==
  IF StripContinues(string) THEN removePreviousFormats(StripStep(string))
  ELSE string

(***************************************************************************)
(* formatString                                                            *)
(***************************************************************************)
\* The three bytes of the cross mark every what() text starts with
CrossMark == "xE2x9Dx8C"

MultipleColors == <<CrossMark, " Multiple colors detected. Only one is allowed.">>
DuplicateStyle(token) == <<CrossMark, " Duplicate style detected: ">> \o token \o <<".">>
UnknownFormat(token) == <<CrossMark, " Unknown format detected: ">> \o token

\* ScanFormats with `break` at an empty parameter, as rainbow scans
RECURSIVE ScanFormats_StopAtEmpty(_, _, _, _, _)
ScanFormats_StopAtEmpty(parameters, i, color, formats, activeStyles) ==
  IF i > Len(parameters) \/ parameters[i] = <<>>
    THEN [thrown |-> FALSE, color |-> color, formats |-> formats]
  ELSE IF Lookup(_colors, parameters[i]) # 0
    THEN IF color # <<>>
           THEN [thrown |-> TRUE, what |-> MultipleColors]
           ELSE ScanFormats_StopAtEmpty(parameters, i + 1,
                            _colors[Lookup(_colors, parameters[i])][2],
                            formats, activeStyles)
  ELSE IF Lookup(_styles, parameters[i]) # 0
    THEN IF Lookup(_styles, parameters[i]) \in activeStyles
           THEN [thrown |-> TRUE, what |-> DuplicateStyle(parameters[i])]
           ELSE ScanFormats_StopAtEmpty(parameters, i + 1, color,
                            formats \o _styles[Lookup(_styles, parameters[i])][2],
                            activeStyles \cup {Lookup(_styles, parameters[i])})
  ELSE [thrown |-> TRUE, what |-> UnknownFormat(parameters[i])]

\* The for loop over parameters[i], from slot i on, with the locals color,
\* formats and activeStyles as they stand; yields the exception thrown or the
\* locals after the loop.
RECURSIVE ScanFormats(_, _, _, _, _)
ScanFormats(parameters, i, color, formats, activeStyles) ==
  IF i > Len(parameters)
    THEN [thrown |-> FALSE, color |-> color, formats |-> formats]
  ELSE IF parameters[i] = <<>>
    THEN ScanFormats(parameters, i + 1, color, formats, activeStyles)
  ELSE IF Lookup(_colors, parameters[i]) # 0
    THEN IF color # <<>>
           THEN [thrown |-> TRUE, what |-> MultipleColors]
           ELSE ScanFormats(parameters, i + 1,
                            _colors[Lookup(_colors, parameters[i])][2],
                            formats, activeStyles)
  ELSE IF Lookup(_styles, parameters[i]) # 0
    THEN IF Lookup(_styles, parameters[i]) \in activeStyles
           THEN [thrown |-> TRUE, what |-> DuplicateStyle(parameters[i])]
           ELSE ScanFormats(parameters, i + 1, color,
                            formats \o _styles[Lookup(_styles, parameters[i])][2],
                            activeStyles \cup {Lookup(_styles, parameters[i])})
  ELSE [thrown |-> TRUE, what |-> UnknownFormat(parameters[i])]

\* formatString returning formats + color + string + reset
formatString_StylesFirst(string, parameters) ==
  IF string = <<>> THEN Returns(<<>>)
  ELSE LET scan == ScanFormats(parameters, 1, <<>>, <<>>, {})
       IN  IF scan.thrown THEN Throws(scan.what)
           ELSE LET payload == IF scan.color # <<>> \/ scan.formats # <<>>
                                 THEN removePreviousFormats(string)
                                 ELSE string
                IN  Returns(scan.formats \o scan.color \o payload \o RESET)

\* formatString(string, firstFormat .. sixthFormat); parameters holds the six
\* format arguments, <<>> for an argument left at its default "".
formatString(string, parameters) ==
  IF string = <<>> THEN Returns(<<>>)
  ELSE LET scan == ScanFormats(parameters, 1, <<>>, <<>>, {})
       IN  IF scan.thrown THEN Throws(scan.what)
           ELSE LET payload == IF scan.color # <<>> \/ scan.formats # <<>>
                                 THEN removePreviousFormats(string)
                                 ELSE string
                IN  Returns(scan.color \o scan.formats \o payload \o RESET)

(***************************************************************************)
(* formatUnsignedInteger                                                   *)
(***************************************************************************)
\* static_cast<char>('0' + d)
DigitChar(d) == <<"0", "1", "2", "3", "4", "5", "6", "7", "8", "9">>[d + 1]

\* The do-while loop with the comma test not discounting the commas put so far
RECURSIVE GroupDigits_CountCommas(_, _, _)
GroupDigits_CountCommas(formattedUnsignedInteger, commaCount, number) ==
  LET comma == /\ formattedUnsignedInteger # <<>>
               /\ Len(formattedUnsignedInteger) % 3 = 0
      grown == <<DigitChar(number % 10)>>
                 \o (IF comma THEN <<",">> ELSE <<>>)
                 \o formattedUnsignedInteger
  IN  IF number \div 10 # 0
        THEN GroupDigits_CountCommas(grown, commaCount, number \div 10)
        ELSE grown

\* The do-while loop, entered with the locals formattedUnsignedInteger and
\* commaCount as they stand and `number` not yet divided; yields
\* formattedUnsignedInteger after the loop.
RECURSIVE GroupDigits(_, _, _)
GroupDigits(formattedUnsignedInteger, commaCount, number) ==
  LET comma == /\ formattedUnsignedInteger # <<>>
               /\ (Len(formattedUnsignedInteger) - commaCount) % 3 = 0
      grown == <<DigitChar(number % 10)>>
                 \o (IF comma THEN <<",">> ELSE <<>>)
                 \o formattedUnsignedInteger
  IN  IF number \div 10 # 0
        THEN GroupDigits(grown, IF comma THEN commaCount + 1 ELSE commaCount,
                         number \div 10)
        ELSE grown

\* formatUnsignedInteger(number, firstFormat .. sixthFormat)
formatUnsignedInteger(number, parameters) ==
  formatString(GroupDigits(<<>>, 0, number), parameters)

(***************************************************************************)
(* double arithmetic (IEEE-754 binary64, round to nearest, ties to even)   *)
(*                                                                         *)
(* A non-negative double that is a multiple of 2^-FracBits is held as its  *)
(* binary digits, LimbBits of them to a limb, Limbs limbs, least           *)
(* significant limb first: binary digit i (from 1) weighs                  *)
(* 2^(i - 1 - FracBits).  Every value the gradient computes from a field   *)
(* below 2^(FracBits - MantissaBits - 1) is such a double, and each        *)
(* operation below yields the double the hardware operation yields.        *)
(***************************************************************************)
MantissaBits == 53
LimbBits == 20
Limbs == 4
FracBits == MantissaBits + 11
Base == 2^LimbBits

LimbOf(i) == (i - 1) \div LimbBits + 1
PlaceOf(i) == (i - 1) % LimbBits

\* The value whose only binary digit is digit i
Pow2At(i) == [l \in 1..Limbs |-> IF l = LimbOf(i) THEN 2^PlaceOf(i) ELSE 0]

\* Binary digit i of x
Digit(x, i) == (x[LimbOf(i)] \div 2^PlaceOf(i)) % 2

\* The exact sum x + y, limb by limb from limb l with the carry so far
RECURSIVE AddFrom(_, _, _, _)
AddFrom(x, y, l, carry) ==
  IF l > Limbs THEN <<>>
  ELSE <<(x[l] + y[l] + carry) % Base>>
         \o AddFrom(x, y, l + 1, (x[l] + y[l] + carry) \div Base)

\* The exact difference x - y (x >= y), limb by limb with the borrow so far
RECURSIVE SubFrom(_, _, _, _)
SubFrom(x, y, l, borrow) ==
  IF l > Limbs THEN <<>>
  ELSE <<(Base + x[l] - y[l] - borrow) % Base>>
         \o SubFrom(x, y, l + 1, IF x[l] - y[l] - borrow < 0 THEN 1 ELSE 0)

\* The exact product x * c for an integer 0 <= c < 2^(31 - LimbBits)
RECURSIVE MulFrom(_, _, _, _)
MulFrom(x, c, l, carry) ==
  IF l > Limbs THEN <<>>
  ELSE <<(x[l] * c + carry) % Base>>
         \o MulFrom(x, c, l + 1, (x[l] * c + carry) \div Base)

\* (double)n for an integer n >= 0
Fixed(n) == MulFrom(Pow2At(FracBits + 1), n, 1, 0)

\* 0.5
Half == Pow2At(FracBits)

\* x < y
Less(x, y) ==
  \E l \in 1..Limbs : x[l] < y[l] /\ \A k \in (l + 1)..Limbs : x[k] = y[k]

\* The place of the leading binary digit of x, 0 for x = 0
Top(x) ==
  LET used == {i \in 1..(Limbs * LimbBits) : Digit(x, i) = 1}
  IN  IF used = {} THEN 0 ELSE CHOOSE i \in used : \A k \in used : k <= i

\* x with its binary digits 1..d cleared
Cleared(x, d) ==
  [l \in 1..Limbs |->
     IF d >= l * LimbBits THEN 0
     ELSE IF d <= (l - 1) * LimbBits THEN x[l]
     ELSE x[l] - (x[l] % 2^(d - (l - 1) * LimbBits))]

\* The double nearest to the exact value x (plus a nonzero amount below its
\* last digit when `inexact`): MantissaBits significant digits, ties to even.
RoundToDouble(x, inexact) ==
  LET drop == Top(x) - MantissaBits
      below == inexact \/ Cleared(x, drop - 1) # x
      up == Digit(x, drop) = 1 /\ (below \/ Digit(x, drop + 1) = 1)
  IN  CASE drop >= 1 /\ up -> AddFrom(Cleared(x, drop), Pow2At(drop + 1), 1, 0)
        [] drop >= 1 /\ ~up -> Cleared(x, drop)
        [] drop < 1 /\ ~inexact -> x

\* The long division of x by the integer f (0 < f < 2^(31 - LimbBits)), from
\* limb l down with the remainder so far and the quotient limbs found so far
RECURSIVE DivFrom(_, _, _, _, _)
DivFrom(x, f, l, rem, quotient) ==
  IF l = 0 THEN [quotient |-> quotient, rem |-> rem]
  ELSE DivFrom(x, f, l - 1, (rem * Base + x[l]) % f,
               <<(rem * Base + x[l]) \div f>> \o quotient)

\* (double)p / (double)f for integers p >= 0, f > 0
Divide(p, f) ==
  LET exact == DivFrom(Fixed(p), f, Limbs, 0, <<>>)
  IN  RoundToDouble(exact.quotient, exact.rem # 0)

\* x - y, x * c
Minus(x, y) == RoundToDouble(SubFrom(x, y, 1, 0), FALSE)
Times(x, c) == RoundToDouble(MulFrom(x, c, 1, 0), FALSE)

\* (int)x
Truncate(x) ==
  LET RECURSIVE Value(_)
      Value(i) == IF i > Limbs * LimbBits THEN 0 ELSE Digit(x, i) + 2 * Value(i + 1)
  IN  Value(FracBits + 1)

(***************************************************************************)
(* formatGradientUnsignedInteger                                           *)
(***************************************************************************)
NoColorAllowed == <<CrossMark, " No color is aurotized with the gradiation function.">>

\* operator<<(int) on the ostringstream: the decimal digits of n >= 0
RECURSIVE Decimal(_)
Decimal(n) ==
  IF n < 10 THEN <<DigitChar(n)>> ELSE Decimal(n \div 10) \o <<DigitChar(n % 10)>>

\* The local `ratio` once clamped and, for reversed bounds, inverted.  The
\* range tests before it leave number between the two bounds, so the unsigned
\* subtractions do not wrap.
GradientRatio(number, minimum, maximum) ==
  LET reversed == minimum > maximum
      progress == IF reversed THEN number - maximum ELSE number - minimum
      field == IF reversed THEN minimum - maximum ELSE maximum - minimum
      ratio == IF field # 0 THEN Divide(progress, field) ELSE Fixed(1)
      clamped == IF Less(Fixed(1), ratio) THEN Fixed(1) ELSE ratio
  IN  IF reversed THEN Minus(Fixed(1), clamped) ELSE clamped

\* The locals red and green
GradientRed(ratio) ==
  IF Less(ratio, Half) THEN 255
  ELSE Truncate(Times(Minus(Fixed(1), Times(Minus(ratio, Half), 2)), 255))

GradientGreen(ratio) ==
  IF Less(ratio, Half) THEN Truncate(Times(Times(ratio, 255), 2)) ELSE 255

\* 16 + (red / 51) * 36 + (green / 51) * 6 + (blue / 51), blue = 0
GradientIndex(number, minimum, maximum) ==
  LET ratio == GradientRatio(number, minimum, maximum)
  IN  16 + (GradientRed(ratio) \div 51) * 36 + (GradientGreen(ratio) \div 51) * 6
         + (0 \div 51)

\* The first loop ending at the first empty parameter
HasColor_StopAtEmpty(parameters) ==
  \E i \in 1..Len(parameters) :
    /\ \A k \in 1..i : parameters[k] # <<>>
    /\ Lookup(_colors, parameters[i]) # 0

\* Whether some parameter names a color (the first loop)
HasColor(parameters) ==
  \E i \in 1..Len(parameters) :
    parameters[i] # <<>> /\ Lookup(_colors, parameters[i]) # 0

\* The first range test without its case for reversed bounds
TooLow_Ascending(number, minimum, maximum) ==
  \/ number < minimum /\ minimum < maximum
  \/ number # maximum /\ minimum = maximum

TooLow(number, minimum, maximum) ==
  \/ number < minimum /\ minimum < maximum
  \/ number > minimum /\ minimum > maximum
  \/ number # maximum /\ minimum = maximum

TooHigh(number, minimum, maximum) ==
  \/ number > maximum /\ maximum > minimum
  \/ number < maximum /\ maximum < minimum

\* formatGradientUnsignedInteger(number, minimum, maximum, firstFormat ..
\* fifthFormat); parameters holds the five format arguments.
formatGradientUnsignedInteger(number, minimum, maximum, parameters) ==
  IF HasColor(parameters) THEN Throws(NoColorAllowed)
  ELSE IF TooLow(number, minimum, maximum)
    THEN formatUnsignedInteger(number, <<red, blink, bold, <<>>, <<>>, <<>>>>)
  ELSE IF TooHigh(number, minimum, maximum)
    THEN formatUnsignedInteger(number, <<green, blink, bold, <<>>, <<>>, <<>>>>)
  ELSE LET color == <<ESC, "[", "3", "8", ";", "5", ";">>
                      \o Decimal(GradientIndex(number, minimum, maximum)) \o <<"m">>
           inner == formatUnsignedInteger(number, parameters \o <<<<>>>>)
       IN  IF inner.thrown THEN inner
           ELSE Returns(color \o inner.value \o RESET)

(***************************************************************************)
(* rainbow                                                                 *)
(***************************************************************************)
TooManyTexts == <<CrossMark, " Too many text arguments for rainbow().">>

\* The four bytes of the rainbow symbol returned when no text is given
RainbowSymbol == <<"xF0", "x9F", "x8C", "x88">>

\* The loop over arguments[i] with `continue` for `break` at an empty argument
RECURSIVE ScanArguments_SkipEmpty(_, _, _, _)
ScanArguments_SkipEmpty(arguments, i, string, format) ==
  IF i > Len(arguments)
    THEN [thrown |-> FALSE, string |-> string, format |-> format]
  ELSE IF arguments[i] = <<>>
    THEN ScanArguments_SkipEmpty(arguments, i + 1, string, format)
  ELSE IF Lookup(_styles, arguments[i]) # 0
    THEN ScanArguments_SkipEmpty(arguments, i + 1, string,
                                 format \o _styles[Lookup(_styles, arguments[i])][2])
  ELSE IF string = <<>>
    THEN ScanArguments_SkipEmpty(arguments, i + 1, arguments[i], format)
  ELSE [thrown |-> TRUE, what |-> TooManyTexts]

\* The loop over arguments[i], from slot i on, with the locals `string` and
\* `format` as they stand; yields the exception thrown or the locals after it.
RECURSIVE ScanArguments(_, _, _, _)
ScanArguments(arguments, i, string, format) ==
  IF i > Len(arguments) \/ arguments[i] = <<>>
    THEN [thrown |-> FALSE, string |-> string, format |-> format]
  ELSE IF Lookup(_styles, arguments[i]) # 0
    THEN ScanArguments(arguments, i + 1, string,
                       format \o _styles[Lookup(_styles, arguments[i])][2])
  ELSE IF string = <<>>
    THEN ScanArguments(arguments, i + 1, arguments[i], format)
  ELSE [thrown |-> TRUE, what |-> TooManyTexts]

\* std::string colors[6]
Palette ==
  << Sgr(<<"3", "1">>), Sgr(<<"3", "2">>), Sgr(<<"3", "3">>),
     Sgr(<<"3", "4">>), Sgr(<<"3", "5">>), Sgr(<<"3", "6">>) >>

\* The shuffle loop without `colors[randomIndex] = colors[5 - i]`
RECURSIVE Shuffle_NoReplace(_, _, _, _)
Shuffle_NoReplace(rands, i, colors, randomColors) ==
  IF i >= 6 THEN randomColors
  ELSE LET randomIndex == rands[i + 1] % (6 - (i % 6))
       IN  Shuffle_NoReplace(rands, i + 1, colors,
                             Append(randomColors, colors[randomIndex + 1]))

\* The shuffle loop from step i (0-based) on, with the array colors as it
\* stands and the entries of randomColors filled so far; rands[i + 1] is what
\* the call of std::rand() of step i returns.
RECURSIVE Shuffle(_, _, _, _)
Shuffle(rands, i, colors, randomColors) ==
  IF i >= 6 THEN randomColors
  ELSE LET randomIndex == rands[i + 1] % (6 - (i % 6))
       IN  Shuffle(rands, i + 1,
                   [colors EXCEPT ![randomIndex + 1] = colors[5 - i + 1]],
                   Append(randomColors, colors[randomIndex + 1]))

\* The inner while loop: from position i (0-based) on, the characters up to
\* the next 'm' or the end; yields the position reached and what was copied.
RECURSIVE CopyEscape(_, _, _)
CopyEscape(string, i, copied) ==
  IF i < Len(string) /\ string[i + 1] # "m"
    THEN CopyEscape(string, i + 1, Append(copied, string[i + 1]))
    ELSE [i |-> i, copied |-> copied]

\* The colouring loop from position i (0-based) on, with rainbowString as it
\* stands
RECURSIVE Colorize(_, _, _, _)
Colorize(string, i, randomColors, rainbowString) ==
  IF i >= Len(string) THEN rainbowString
  ELSE IF string[i + 1] = ESC /\ i + 1 < Len(string) /\ string[i + 2] = "["
    THEN LET run == CopyEscape(string, i, <<>>)
         IN  Colorize(string, run.i + 1, randomColors,
                      rainbowString \o run.copied \o <<"m">>)
  ELSE Colorize(string, i + 1, randomColors,
                rainbowString \o randomColors[(i % 6) + 1] \o <<string[i + 1]>>)

\* rainbow(firstArgument .. fifthArgument), std::rand() returning rands[1],
\* rands[2], ... in turn
rainbow(arguments, rands) ==
  LET scan == ScanArguments(arguments, 1, <<>>, <<>>)
  IN  IF scan.thrown THEN Throws(scan.what)
      ELSE IF scan.string = <<>> THEN Returns(RainbowSymbol)
      ELSE Returns(scan.format
                     \o Colorize(removePreviousFormats(scan.string), 0,
                                 Shuffle(rands, 0, Palette, <<>>), <<>>)
                     \o RESET)

(***************************************************************************)
(* Inputs                                                                  *)
(***************************************************************************)
\* Longest payload text
MaxLen == 5
\* Most format arguments given in one call
MaxTokens == 3
\* Largest number and bound given to the gradient
MaxValue == 10
\* Numbers formatted: m * 10^e - 1, m * 10^e, m * 10^e + 1
MaxMantissa == 21
MaxExponent == 9
\* Largest value std::rand() returns
RandMax == 5

Alphabet == {ESC, "[", "m", "a"}

Texts == UNION {[1..n -> Alphabet] : n \in 0..MaxLen}

Unknown == <<"R", "e", "d">>

TokenNames == {red, green, bold, blink, Unknown}

\* n format arguments, at most MaxTokens of them given
Slots(n) ==
  {p \in [1..n -> TokenNames \cup {<<>>}] :
     Cardinality({i \in 1..n : p[i] # <<>>}) <= MaxTokens}

\* The arguments `given`, the other parameters up to n left at their default
Given(given, n) == given \o [i \in 1..(n - Len(given)) |-> <<>>]

\* The largest number the model's integers hold; an unsigned int holds more
IntMax == 2147483646 + 1

Numbers ==
  LET pairs == {me \in (0..MaxMantissa) \X (0..MaxExponent) :
                  me[2] < 10 /\ me[1] < IntMax \div 10^me[2]}
      near == UNION {{me[1] * 10^me[2] - 1, me[1] * 10^me[2], me[1] * 10^me[2] + 1} :
                       me \in pairs}
  IN  {k \in near : k >= 0}

(***************************************************************************)
(* The state machine: a caller holds the arguments of one call (fn names   *)
(* the function), makes the call, and may then format the string returned  *)
(* once more with the same format arguments, or strip its escapes.         *)
(***************************************************************************)
Nothing == Returns(<<>>)

\* A call of fn not yet made, with the arguments it does not take left empty
Pending(f, string, formats, number, minimum, maximum, rands) ==
  /\ fn = f
  /\ argString = string
  /\ argFormats = formats
  /\ argNumber = number
  /\ argMinimum = minimum
  /\ argMaximum = maximum
  /\ randValues = rands
  /\ pc = "call"
  /\ returned = Nothing
  /\ again = Nothing
  /\ cleaned = <<>>

FormatString ==
  /\ pc = "call" /\ fn = "formatString"
  /\ returned' = formatString(argString, argFormats)
  /\ pc' = "returned"
  /\ UNCHANGED <<fn, argString, argFormats, argNumber, argMinimum, argMaximum,
                 randValues, again, cleaned>>

FormatUnsignedInteger ==
  /\ pc = "call" /\ fn = "formatUnsignedInteger"
  /\ returned' = formatUnsignedInteger(argNumber, argFormats)
  /\ pc' = "returned"
  /\ UNCHANGED <<fn, argString, argFormats, argNumber, argMinimum, argMaximum,
                 randValues, again, cleaned>>

FormatGradientUnsignedInteger ==
  /\ pc = "call" /\ fn = "formatGradientUnsignedInteger"
  /\ returned' = formatGradientUnsignedInteger(argNumber, argMinimum, argMaximum,
                                               argFormats)
  /\ pc' = "returned"
  /\ UNCHANGED <<fn, argString, argFormats, argNumber, argMinimum, argMaximum,
                 randValues, again, cleaned>>

Rainbow ==
  /\ pc = "call" /\ fn = "rainbow"
  /\ returned' = rainbow(argFormats, randValues)
  /\ pc' = "returned"
  /\ UNCHANGED <<fn, argString, argFormats, argNumber, argMinimum, argMaximum,
                 randValues, again, cleaned>>

\* formatString(formatString(text, T), T)
Reformat ==
  /\ pc = "returned" /\ fn = "formatString" /\ ~returned.thrown
  /\ again' = formatString(returned.value, argFormats)
  /\ pc' = "reformatted"
  /\ UNCHANGED <<fn, argString, argFormats, argNumber, argMinimum, argMaximum,
                 randValues, returned, cleaned>>

\* removePreviousFormats on the string a formatter returned
Strip ==
  /\ pc = "returned" /\ ~returned.thrown
  /\ cleaned' = removePreviousFormats(returned.value)
  /\ pc' = "stripped"
  /\ UNCHANGED <<fn, argString, argFormats, argNumber, argMinimum, argMaximum,
                 randValues, returned, again>>

(***************************************************************************)
(* formatString over the format arguments                                  *)
(***************************************************************************)
\* Payloads: none, plain, already formatted, ending in an unterminated escape
FormatPayloads ==
  {<<>>, <<"a">>, Sgr(<<"1">>) \o <<"a", "m">> \o RESET, <<"a", ESC, "[">>}

InitFormat ==
  \E string \in FormatPayloads, formats \in Slots(6) :
    Pending("formatString", string, formats, 0, 0, 0, <<>>)

NextFormat == FormatString

SpecFormat == InitFormat /\ [][NextFormat]_vars

(***************************************************************************)
(* formatUnsignedInteger over the numbers                                  *)
(***************************************************************************)
IntegerFormats ==
  {Given(<<>>, 6), Given(<<bold>>, 6), Given(<<red, <<>>, blink>>, 6)}

InitInteger ==
  \E number \in Numbers, formats \in IntegerFormats :
    Pending("formatUnsignedInteger", <<>>, formats, number, 0, 0, <<>>)

NextInteger == FormatUnsignedInteger

SpecInteger == InitInteger /\ [][NextInteger]_vars

(***************************************************************************)
(* formatGradientUnsignedInteger over the numbers and bounds               *)
(***************************************************************************)
GradientFormats ==
  {Given(<<>>, 5), Given(<<bold>>, 5), Given(<<<<>>, underline, blink>>, 5),
   Given(<<bold, <<>>, bold>>, 5), Given(<<bold, Unknown>>, 5),
   Given(<<red>>, 5), Given(<<bold, <<>>, <<>>, <<>>, green>>, 5),
   Given(<<Unknown, <<>>, blue>>, 5)}

\* The values of the documentation's examples, beside 0..MaxValue
GradientExamples == {<<50, 0, 100>>, <<50, 100, 0>>, <<150, 0, 100>>, <<0, 100, 1000>>}

InitGradient ==
  \E range \in ((0..MaxValue) \X (0..MaxValue) \X (0..MaxValue)) \cup GradientExamples,
     formats \in GradientFormats :
    Pending("formatGradientUnsignedInteger", <<>>, formats,
            range[1], range[2], range[3], <<>>)

NextGradient == FormatGradientUnsignedInteger

SpecGradient == InitGradient /\ [][NextGradient]_vars

(***************************************************************************)
(* rainbow over the values std::rand() returns                             *)
(***************************************************************************)
\* Texts without ESC: longer than one cycle of colors, and with '[' and 'm' in it
RainbowTexts == {<<"a", "b", "c", "d", "e", "f", "g", "h">>, <<"[", "m">>}

InitRainbow ==
  \E string \in RainbowTexts, rands \in [1..6 -> 0..RandMax] :
    Pending("rainbow", <<>>, Given(<<string>>, 5), 0, 0, 0, rands)

NextRainbow == Rainbow

SpecRainbow == InitRainbow /\ [][NextRainbow]_vars

(***************************************************************************)
(* Every formatter over the payload texts, and what follows a call         *)
(***************************************************************************)
TextFormats == {Given(<<>>, 6), Given(<<bold>>, 6), Given(<<red, bold>>, 6)}

SomeRands == {[i \in 1..6 |-> 0], [i \in 1..6 |-> RandMax - (i % 3)]}

Init ==
  \/ \E string \in Texts, formats \in TextFormats :
       Pending("formatString", string, formats, 0, 0, 0, <<>>)
  \/ \E number \in Numbers, formats \in {Given(<<>>, 6), Given(<<green, bold>>, 6)} :
       Pending("formatUnsignedInteger", <<>>, formats, number, 0, 0, <<>>)
  \/ \E range \in (0..MaxValue) \X (0..MaxValue) \X (0..MaxValue),
        formats \in {Given(<<>>, 5), Given(<<bold>>, 5)} :
       Pending("formatGradientUnsignedInteger", <<>>, formats,
               range[1], range[2], range[3], <<>>)
  \/ \E string \in Texts, style \in {<<>>, <<bold>>}, rands \in SomeRands :
       Pending("rainbow", <<>>, Given(style \o <<string>>, 5), 0, 0, 0, rands)

Next ==
  \/ FormatString
  \/ FormatUnsignedInteger
  \/ FormatGradientUnsignedInteger
  \/ Rainbow
  \/ Reformat
  \/ Strip

Spec == Init /\ [][Next]_vars

(***************************************************************************)
(* rainbow over its arguments                                              *)
(***************************************************************************)
\* What a slot holds: nothing, a style, a text, a color name (a text here)
ArgumentValues == {<<>>, bold, blink, <<"a", "b">>, red}

InitArguments ==
  \E arguments \in [1..5 -> ArgumentValues], rands \in SomeRands :
    Pending("rainbow", <<>>, arguments, 0, 0, 0, rands)

NextArguments == Rainbow

SpecArguments == InitArguments /\ [][NextArguments]_vars

(***************************************************************************)
(* removePreviousFormats, iteration by iteration: argString is the buffer  *)
(* as the caller passes it, cleaned the buffer `string` as it stands, pc   *)
(* the position in the function ("while": about to test the condition).    *)
(***************************************************************************)
\* Buffers: one character longer than the payload texts
StripperTexts == UNION {[1..n -> Alphabet] : n \in 0..(MaxLen + 1)}

InitStripper ==
  \E string \in StripperTexts :
    Pending("removePreviousFormats", string, <<>>, 0, 0, 0, <<>>)

\* The call: `string` refers to the caller's buffer
StripperEnter ==
  /\ pc = "call" /\ fn = "removePreviousFormats"
  /\ cleaned' = argString
  /\ pc' = "while"
  /\ UNCHANGED <<fn, argString, argFormats, argNumber, argMinimum, argMaximum,
                 randValues, returned, again>>

\* An iteration that finds a start and an end, and erases
StripperErase ==
  /\ pc = "while"
  /\ FindStart(cleaned) # npos
  /\ FindEnd(cleaned, FindStart(cleaned)) # npos
  /\ cleaned' = Erase(cleaned, FindStart(cleaned), FindEnd(cleaned, FindStart(cleaned)))
  /\ pc' = "while"
  /\ UNCHANGED <<fn, argString, argFormats, argNumber, argMinimum, argMaximum,
                 randValues, returned, again>>

\* An iteration that finds a start and no end: break
StripperBreak ==
  /\ pc = "while"
  /\ FindStart(cleaned) # npos
  /\ FindEnd(cleaned, FindStart(cleaned)) = npos
  /\ pc' = "done"
  /\ UNCHANGED <<fn, argString, argFormats, argNumber, argMinimum, argMaximum,
                 randValues, returned, again, cleaned>>

\* The condition of the while loop false: no start is found
StripperExit ==
  /\ pc = "while"
  /\ FindStart(cleaned) = npos
  /\ pc' = "done"
  /\ UNCHANGED <<fn, argString, argFormats, argNumber, argMinimum, argMaximum,
                 randValues, returned, again, cleaned>>

NextStripper ==
  \/ StripperEnter
  \/ StripperErase
  \/ StripperBreak
  \/ StripperExit

\* The function runs on: it is one thread's straight-line code
SpecStripper == InitStripper /\ [][NextStripper]_vars /\ WF_vars(NextStripper)

(***************************************************************************)
(* What the claims speak of                                                *)
(***************************************************************************)
ColorNames == {_colors[j][1] : j \in 1..Len(_colors)}
StyleNames == {_styles[j][1] : j \in 1..Len(_styles)}

\* The escape code a table gives for a name of it
EscapeOf(table, name) ==
  table[CHOOSE j \in 1..Len(table) : table[j][1] = name][2]

\* The slots of a token list that hold a token
GivenSlots(tokens) == {i \in 1..Len(tokens) : tokens[i] # <<>>}

\* At most one color name, pairwise distinct style names, nothing else
ValidTokens(tokens) ==
  /\ \A i \in GivenSlots(tokens) : tokens[i] \in ColorNames \cup StyleNames
  /\ \A i, j \in GivenSlots(tokens) :
       i # j => /\ ~(tokens[i] \in ColorNames /\ tokens[j] \in ColorNames)
                /\ tokens[i] # tokens[j]

\* The escape of the color token, wherever it stands; empty when there is none
ColorPrefix(tokens) ==
  IF \E i \in GivenSlots(tokens) : tokens[i] \in ColorNames
    THEN EscapeOf(_colors, tokens[CHOOSE i \in GivenSlots(tokens) : tokens[i] \in ColorNames])
    ELSE <<>>

\* The escapes of the style tokens of slots i.., in the order of the slots
RECURSIVE StylePrefix(_, _)
StylePrefix(tokens, i) ==
  IF i > Len(tokens) THEN <<>>
  ELSE (IF tokens[i] \in StyleNames THEN EscapeOf(_styles, tokens[i]) ELSE <<>>)
         \o StylePrefix(tokens, i + 1)

StartsWith(s, prefix) ==
  Len(s) >= Len(prefix) /\ SubSeq(s, 1, Len(prefix)) = prefix

EndsWith(s, suffix) ==
  Len(s) >= Len(suffix) /\ SubSeq(s, Len(s) - Len(suffix) + 1, Len(s)) = suffix

\* C1: formatString of an empty payload returns the empty string whatever the
\* tokens, valid or not, and throws nothing; of a non-empty payload with a
\* valid list of at least one token it returns the color's escape (first,
\* whatever its slot) + the style escapes in slot order + the payload as the
\* escape stripper cleans it + ESC[0m; with a single token the result begins
\* with that token's escape and ends with ESC[0m.
C1_Composition ==
  (pc = "returned" /\ fn = "formatString") =>
    /\ argString = <<>> => returned = Returns(<<>>)
    /\ (argString # <<>> /\ ValidTokens(argFormats) /\ GivenSlots(argFormats) # {}) =>
         /\ returned = Returns(ColorPrefix(argFormats) \o StylePrefix(argFormats, 1)
                                 \o removePreviousFormats(argString) \o RESET)
         /\ \A i \in GivenSlots(argFormats) :
              GivenSlots(argFormats) = {i} =>
                /\ StartsWith(returned.value,
                              EscapeOf(IF argFormats[i] \in ColorNames
                                         THEN _colors ELSE _styles, argFormats[i]))
                /\ EndsWith(returned.value, <<ESC, "[", "0", "m">>)

\* A color given in a later slot than two styles, around a payload that held
\* escapes: the color's escape still comes first
C1_Witness ==
  /\ pc = "returned" /\ fn = "formatString" /\ ~returned.thrown
  /\ argFormats = <<blink, <<>>, bold, <<>>, <<>>, green>>
  /\ argString = Sgr(<<"1">>) \o <<"a", "m">> \o RESET
  /\ returned.value = Sgr(<<"3", "2">>) \o Sgr(<<"5">>) \o Sgr(<<"1">>)
                        \o <<"a", "m">> \o <<ESC, "[", "0", "m">>

\* C2 (as claimed): formatString of a non-empty payload with all six token
\* slots empty returns the payload as it is, with no reset escape appended.
C2_NoTokensUnmodified ==
  (pc = "returned" /\ fn = "formatString" /\ argString # <<>>
     /\ GivenSlots(argFormats) = {}) =>
    returned = Returns(argString)

\* Whether the token of slot i offends: a color after an earlier color, a
\* style given in an earlier slot, or a name of neither table
Offends(tokens, i) ==
  /\ tokens[i] # <<>>
  /\ \/ tokens[i] \in ColorNames /\ \E j \in 1..(i - 1) : tokens[j] \in ColorNames
     \/ tokens[i] \in StyleNames /\ \E j \in 1..(i - 1) : tokens[j] = tokens[i]
     \/ tokens[i] \notin ColorNames \cup StyleNames

\* The first offending slot, 0 when no token offends
FirstOffender(tokens) ==
  LET bad == {i \in 1..Len(tokens) : Offends(tokens, i)}
  IN  IF bad = {} THEN 0 ELSE CHOOSE i \in bad : \A k \in bad : i <= k

\* Whether the text s holds the token t, character after character
Holds(s, t) == \E k \in 0..(Len(s) - Len(t)) : SubSeq(s, k + 1, k + Len(t)) = t

\* C3: formatString of a non-empty payload throws if and only if, scanning the
\* six slots in order and passing over empty ones, some token is a color after
\* an accepted color, a style already accepted, or a name of neither table;
\* what is thrown is the error of the first such token, and for a duplicate
\* style or an unknown name its text holds the token.
C3_Errors ==
  (pc = "returned" /\ fn = "formatString" /\ argString # <<>>) =>
    LET first == FirstOffender(argFormats)
        token == argFormats[first]
    IN  /\ returned.thrown <=> first # 0
        /\ first # 0 =>
             /\ token \in ColorNames =>
                  returned.value[2] = " Multiple colors detected. Only one is allowed."
             /\ token \in StyleNames =>
                  /\ returned.value[2] = " Duplicate style detected: "
                  /\ Holds(returned.value, token)
             /\ token \notin ColorNames \cup StyleNames =>
                  /\ returned.value[2] = " Unknown format detected: "
                  /\ Holds(returned.value, token)

\* A style repeated after an empty slot, before an unknown name: the duplicate
\* is what is reported
C3_Witness ==
  /\ pc = "returned" /\ fn = "formatString"
  /\ argFormats = <<bold, <<>>, bold, Unknown, <<>>, <<>>>>
  /\ returned = Throws(<<CrossMark, " Duplicate style detected: ", "b", "o", "l", "d", ".">>)

\* The text argument of a rainbow call: the first argument, before the first
\* empty one, that names no style; empty when there is none
TextOf(arguments) ==
  LET scanned == {i \in 1..Len(arguments) : \A k \in 1..i : arguments[k] # <<>>}
      texts == {i \in scanned : arguments[i] \notin StyleNames}
  IN  IF texts = {} THEN <<>>
      ELSE arguments[CHOOSE i \in texts : \A k \in texts : i <= k]

\* Whether the call made has a payload: every call but a rainbow without text
HasPayload == fn = "rainbow" => TextOf(argFormats) # <<>>

\* The payload of the call made, as the escape stripper cleans it; for a
\* number, its comma-grouped digits
CleanPayload ==
  CASE fn = "formatString" -> removePreviousFormats(argString)
    [] fn = "rainbow" -> removePreviousFormats(TextOf(argFormats))
    [] OTHER -> GroupDigits(<<>>, 0, argNumber)

\* C4 (as claimed): for every payload and every valid token list with a token,
\* formatting the result again with the same tokens gives the same result.
C4_Idempotent ==
  (pc = "reformatted" /\ ValidTokens(argFormats) /\ GivenSlots(argFormats) # {}) =>
    again = returned

\* C4 (amended): the same for every payload that the escape stripper cleans
\* of every start marker ESC[ (no unterminated fragment is left in it).
C4_IdempotentClean ==
  (pc = "reformatted" /\ ValidTokens(argFormats) /\ GivenSlots(argFormats) # {}
     /\ FindStart(removePreviousFormats(argString)) = npos) =>
    again = returned

\* A payload with an escape and a lone ESC at its end, formatted red and bold,
\* then formatted again: once wrapped, not twice
C4_Witness ==
  /\ pc = "reformatted"
  /\ argFormats = Given(<<red, bold>>, 6)
  /\ argString = <<ESC, "[", "m", "a", ESC>>
  /\ returned.value = Sgr(<<"3", "1">>) \o Sgr(<<"1">>) \o <<"a", ESC>> \o RESET
  /\ again = returned

\* C5 (as claimed): stripping the escapes of what a formatter returns gives
\* back the payload: the text as the stripper cleans it, or the grouped digits.
C5_RoundTrip ==
  (pc = "stripped" /\ HasPayload) => cleaned = CleanPayload

\* C5 (amended): the same for every payload that the escape stripper cleans of
\* every start marker ESC[ (no unterminated fragment is left in it).
C5_RoundTripClean ==
  (pc = "stripped" /\ HasPayload /\ FindStart(CleanPayload) = npos) =>
    cleaned = CleanPayload

\* A bold rainbow of a text with an escape and a lone ESC at its end, stripped
C5_Witness ==
  /\ pc = "stripped" /\ fn = "rainbow"
  /\ argFormats = Given(<<bold, <<ESC, "[", "m", "a", ESC>>>>, 5)
  /\ Len(returned.value) > Len(cleaned) + Len(RESET)
  /\ cleaned = <<"a", ESC>>

\* The digit text of what formatUnsignedInteger returned: what stands between
\* the escapes of the tokens and the reset escape
DigitText ==
  LET prefix == ColorPrefix(argFormats) \o StylePrefix(argFormats, 1)
  IN  SubSeq(returned.value, Len(prefix) + 1, Len(returned.value) - Len(RESET))

NotComma(c) == c # ","

\* C6: the digit text formatUnsignedInteger builds for n is, once its commas
\* are removed, the decimal digits of n with no leading zero; a comma stands
\* exactly where the number of characters from there to the end is a multiple
\* of four, so that three digits follow every comma and none leads or trails;
\* no comma when n < 1000; 0 gives "0" and 1000000 gives "1,000,000".
C6_Grouping ==
  (pc = "returned" /\ fn = "formatUnsignedInteger") =>
    LET t == DigitText
        d == SelectSeq(t, NotComma)
    IN  /\ ~returned.thrown
        /\ StartsWith(returned.value, ColorPrefix(argFormats) \o StylePrefix(argFormats, 1))
        /\ EndsWith(returned.value, RESET)
        /\ Len(d) >= 1
        /\ \A k \in 0..(Len(d) - 1) :
             d[Len(d) - k] = DigitChar((argNumber \div 10^k) % 10)
        /\ argNumber \div 10^(Len(d) - 1) < 10
        /\ Len(d) > 1 => d[1] # "0"
        /\ \A i \in 1..Len(t) : t[i] = "," <=> (Len(t) - i + 1) % 4 = 0
        /\ t[1] # "," /\ t[Len(t)] # ","
        /\ argNumber < 1000 => t = d
        /\ argNumber = 0 => t = <<"0">>
        /\ argNumber = 1000000 => t = <<"1", ",", "0", "0", "0", ",", "0", "0", "0">>

\* A bold one million and one, returned with its two commas
C6_Witness ==
  /\ pc = "returned" /\ fn = "formatUnsignedInteger"
  /\ argNumber = 1000001
  /\ argFormats = Given(<<bold>>, 6)
  /\ returned.value = Sgr(<<"1">>)
                        \o <<"1", ",", "0", "0", "0", ",", "0", "0", "1">> \o RESET

\* The gradient call made, as the claims name its cases
ColorGiven == \E i \in 1..Len(argFormats) : argFormats[i] \in ColorNames

LowSide ==
  \/ argNumber < argMinimum /\ argMinimum < argMaximum
  \/ argNumber > argMinimum /\ argMinimum > argMaximum
  \/ argMinimum = argMaximum /\ argNumber # argMinimum

HighSide ==
  \/ argNumber > argMaximum /\ argMaximum > argMinimum
  \/ argNumber < argMaximum /\ argMaximum < argMinimum

Between ==
  \/ argMinimum <= argNumber /\ argNumber <= argMaximum
  \/ argMaximum <= argNumber /\ argNumber <= argMinimum

\* A number rendered in a color, blinking and bold
Boundary(color) ==
  Returns(Sgr(color) \o Sgr(<<"5">>) \o Sgr(<<"1">>)
            \o GroupDigits(<<>>, 0, argNumber) \o RESET)

GradientEscape == <<ESC, "[", "3", "8", ";", "5", ";">>

\* C7: with no color token, a number is rendered red, blinking and bold exactly
\* when it lies outside the range on the minimum's side or the bounds are equal
\* and it differs from them; green, blinking and bold exactly when it lies
\* outside on the maximum's side; never both; otherwise it lies between the
\* bounds, inclusive, and what is returned starts with ESC[38;5;.
C7_RangeClasses ==
  (pc = "returned" /\ fn = "formatGradientUnsignedInteger" /\ ~ColorGiven) =>
    /\ ~(LowSide /\ HighSide)
    /\ LowSide <=> returned = Boundary(<<"3", "1">>)
    /\ HighSide <=> returned = Boundary(<<"3", "2">>)
    /\ Between <=> ~(LowSide \/ HighSide)
    /\ (Between /\ ~returned.thrown) => StartsWith(returned.value, GradientEscape)
    /\ (Between /\ returned.thrown) => ~ValidTokens(argFormats)

\* Reversed bounds and a number above the minimum: too low, whatever the style
C7_Witness ==
  /\ pc = "returned" /\ fn = "formatGradientUnsignedInteger"
  /\ argNumber = 7 /\ argMinimum = 5 /\ argMaximum = 2
  /\ argFormats = Given(<<<<>>, underline, blink>>, 5)
  /\ returned.value = Sgr(<<"3", "1">>) \o Sgr(<<"5">>) \o Sgr(<<"1">>) \o <<"7">> \o RESET

\* The index of the claimed mapping, its ratio, products and difference
\* computed in double as the code's are
ClaimedIndex ==
  LET progress == IF argMinimum <= argMaximum THEN argNumber - argMinimum
                  ELSE argMinimum - argNumber
      field == IF argMinimum <= argMaximum THEN argMaximum - argMinimum
               ELSE argMinimum - argMaximum
      ratio == IF field = 0 THEN Fixed(1) ELSE Divide(progress, field)
      R == IF Less(ratio, Half) THEN 255
           ELSE Truncate(Times(Minus(Fixed(2), Times(ratio, 2)), 255))
      G == IF Less(ratio, Half) THEN Truncate(Times(ratio, 510)) ELSE 255
  IN  16 + 36 * (R \div 51) + 6 * (G \div 51)

\* C8: for a number between the bounds, in either order, what is returned
\* starts with ESC[38;5;<index>m, where index = 16 + 36*(R div 51) + 6*(G div 51),
\* ratio = (number - minimum)/(maximum - minimum), 1 for equal bounds,
\* R = 255 and G = trunc(510*ratio) for ratio < 0.5, R = trunc(255*(2 - 2*ratio))
\* and G = 255 otherwise.
C8_GradientIndex ==
  (pc = "returned" /\ fn = "formatGradientUnsignedInteger" /\ Between
     /\ ~returned.thrown) =>
    StartsWith(returned.value, GradientEscape \o Decimal(ClaimedIndex) \o <<"m">>)

\* C9: formatGradientUnsignedInteger throws exactly when a slot, after an
\* empty one or not, holds a color name, whatever the number and the bounds,
\* or the number is between the bounds and the tokens hold an unknown string
\* or a style twice; a color name gives the error of the gradient; with none,
\* a number out of range is rendered by its side alone, whatever the tokens.
C9_TokenValidation ==
  (pc = "returned" /\ fn = "formatGradientUnsignedInteger") =>
    /\ returned.thrown <=> (ColorGiven \/ (Between /\ ~ValidTokens(argFormats)))
    /\ ColorGiven => returned = Throws(NoColorAllowed)
    /\ (~ColorGiven /\ returned.thrown) =>
         \/ returned = Throws(UnknownFormat(Unknown))
         \/ returned = Throws(DuplicateStyle(bold))
    /\ (~ColorGiven /\ LowSide) => returned = Boundary(<<"3", "1">>)
    /\ (~ColorGiven /\ HighSide) => returned = Boundary(<<"3", "2">>)

\* A color name after empty slots and a number out of range: the call throws
C9_Witness ==
  /\ pc = "returned" /\ fn = "formatGradientUnsignedInteger"
  /\ argNumber = 0 /\ argMinimum = 5 /\ argMaximum = 10
  /\ argFormats = <<bold, <<>>, <<>>, <<>>, green>>
  /\ returned = Throws(NoColorAllowed)

\* The escape that precedes character k (from 0) of a rainbow of plain text
ColorAt(k) == SubSeq(returned.value, 6 * k + 1, 6 * k + 5)

PaletteColors == {Sgr(<<"3", c>>) : c \in {"1", "2", "3", "4", "5", "6"}}

\* C10: whatever std::rand() returns, the colors of the six cycle positions
\* are the six colors of the palette, each once; in a text without escapes
\* character k follows the color of position k mod 6, so characters less than
\* six apart differ in color and characters k and k + 6 agree.
C10_Permutation ==
  (pc = "returned" /\ fn = "rainbow") =>
    LET text == TextOf(argFormats)
        cycle == Shuffle(randValues, 0, Palette, <<>>)
    IN  /\ ~returned.thrown
        /\ Len(cycle) = 6
        /\ {cycle[i] : i \in 1..6} = PaletteColors
        /\ Len(returned.value) = 6 * Len(text) + Len(RESET)
        /\ EndsWith(returned.value, RESET)
        /\ \A k \in 0..(Len(text) - 1) :
             /\ ColorAt(k) = cycle[(k % 6) + 1]
             /\ returned.value[6 * k + 6] = text[k + 1]
             /\ k >= 6 => ColorAt(k) = ColorAt(k - 6)
             /\ \A j \in 0..(k - 1) : k - j < 6 => ColorAt(j) # ColorAt(k)
        /\ Len(text) >= 6 => {ColorAt(k) : k \in 0..5} = PaletteColors

\* std::rand() returning 0 each time: red, cyan, magenta, blue, yellow, green,
\* and the seventh and eighth characters red and cyan again
C10_Witness ==
  /\ pc = "returned" /\ fn = "rainbow"
  /\ randValues = [i \in 1..6 |-> 0]
  /\ Len(TextOf(argFormats)) = 8
  /\ ColorAt(0) = Sgr(<<"3", "1">>) /\ ColorAt(1) = Sgr(<<"3", "6">>)
  /\ ColorAt(5) = Sgr(<<"3", "2">>)
  /\ ColorAt(6) = Sgr(<<"3", "1">>) /\ ColorAt(7) = Sgr(<<"3", "6">>)

\* The slots rainbow looks at: those before the first empty one
Scanned(arguments) ==
  {i \in 1..Len(arguments) : \A k \in 1..i : arguments[k] # <<>>}

\* Of those, the slots that hold text
TextSlots(arguments) ==
  {i \in Scanned(arguments) : arguments[i] \notin StyleNames}

\* The arguments with every slot after the first empty one emptied
Emptied(arguments) ==
  [i \in 1..Len(arguments) |->
     IF i \in Scanned(arguments) THEN arguments[i] ELSE <<>>]

\* C11: rainbow looks at its slots in order up to the first empty one: what
\* the later slots hold changes nothing and raises nothing.  Of the slots
\* looked at, a style name is a style and any other string a text; the call
\* throws (too many text arguments) exactly when two or more hold text,
\* returns the rainbow symbol alone exactly when none does, and otherwise the
\* styles' escapes, the text colored character by character, and ESC[0m.
C11_ArgumentScan ==
  (pc = "returned" /\ fn = "rainbow") =>
    LET texts == TextSlots(argFormats)
        cycle == Shuffle(randValues, 0, Palette, <<>>)
    IN  /\ returned = rainbow(Emptied(argFormats), randValues)
        /\ returned.thrown <=> Cardinality(texts) >= 2
        /\ returned.thrown => returned = Throws(TooManyTexts)
        /\ returned = Returns(RainbowSymbol) <=> texts = {}
        /\ Cardinality(texts) = 1 =>
             returned = Returns(StylePrefix(Emptied(argFormats), 1)
                                  \o Colorize(removePreviousFormats(TextOf(argFormats)),
                                              0, cycle, <<>>)
                                  \o RESET)

\* A style and a text, then an empty slot, then two more texts: the text is
\* returned bold and colored, the later texts raise nothing
C11_Witness ==
  /\ pc = "returned" /\ fn = "rainbow"
  /\ argFormats = <<bold, <<"a", "b">>, <<>>, red, <<"a", "b">>>>
  /\ randValues = [i \in 1..6 |-> 0]
  /\ returned = Returns(Sgr(<<"1">>) \o Sgr(<<"3", "1">>) \o <<"a">>
                          \o Sgr(<<"3", "6">>) \o <<"b">> \o RESET)

\* The positions of a buffer where a start marker ESC[ stands
Markers(buffer) ==
  {i \in 1..(Len(buffer) - 1) : buffer[i] = ESC /\ buffer[i + 1] = "["}

\* The first of them
FirstMarker(buffer) ==
  CHOOSE i \in Markers(buffer) : \A k \in Markers(buffer) : i <= k

\* The positions from `from` on where an 'm' stands
Terminators(buffer, from) == {i \in from..Len(buffer) : buffer[i] = "m"}

\* Whether the characters of `part` stand in `whole` in the same order
RECURSIVE Within(_, _)
Within(part, whole) ==
  IF part = <<>> THEN TRUE
  ELSE IF whole = <<>> THEN FALSE
  ELSE IF Head(part) = Head(whole) THEN Within(Tail(part), Tail(whole))
  ELSE Within(part, Tail(whole))

\* An iteration erases exactly from the first start marker through the first
\* 'm' at or after it, three characters or more
ErasesFirstSpan ==
  /\ Markers(cleaned) # {}
  /\ Terminators(cleaned, FirstMarker(cleaned)) # {}
  /\ LET start == FirstMarker(cleaned)
         end == CHOOSE i \in Terminators(cleaned, start) :
                  \A k \in Terminators(cleaned, start) : i <= k
     IN  cleaned' = SubSeq(cleaned, 1, start - 1)
                      \o SubSeq(cleaned, end + 1, Len(cleaned))
  /\ Len(cleaned') <= Len(cleaned) - 3
  /\ pc' = "while"

\* C12: removePreviousFormats terminates on every buffer; each iteration
\* either erases exactly the span from the first start marker ESC[ through the
\* first 'm' at or after it (at least three characters) or leaves the loop
\* with the buffer as it is; on return the buffer holds no start marker, one
\* made by an erasure included, or no 'm' after its first start marker; a
\* buffer whose first start marker has no later 'm' is returned unchanged;
\* the characters kept are in the order they had.
C12_StripperLoop ==
  /\ [][pc = "while" => (ErasesFirstSpan \/ (pc' = "done" /\ cleaned' = cleaned))]_vars
  /\ [](pc = "done" =>
          /\ \/ Markers(cleaned) = {}
             \/ Terminators(cleaned, FirstMarker(cleaned)) = {}
          /\ (Markers(argString) # {}
                /\ Terminators(argString, FirstMarker(argString)) = {}) =>
               cleaned = argString
          /\ Within(cleaned, argString)
          /\ cleaned = removePreviousFormats(argString))
  /\ <>(pc = "done")

\* An escape between an ESC and a '[': erasing it makes a start marker, which
\* the next iteration erases with the 'm' after it
C12_Witness ==
  /\ pc = "done" /\ fn = "removePreviousFormats"
  /\ argString = <<ESC, ESC, "[", "m", "[", "m">>
  /\ cleaned = <<>>

====
